---- MODULE Spec2Model ----
(***************************************************************************)
(* A model of passfortress_sdk.client.PassfortressClient and of the        *)
(* refresh_token_on_expiry decorator: construction (the initial token      *)
(* request), the public resource operations, the generic request routine   *)
(* and the refresh-then-retry protocol.  The remote API and the transport  *)
(* are the environment: every POST is answered by a response of some       *)
(* status and body, or fails at transport level.                           *)
(***************************************************************************)
EXTENDS Integers, Sequences, FiniteSets, TLC

\* ------------------------------------------------------------------ bounds

\* How many distinct access tokens the remote API can issue.
NumTokens == 2

\* How many times close() is called on one client.
MaxCloses == 2

\* How many times in a row a caller invokes _auth_refresh_token itself.
MaxDirectRefreshes == 2

\* The largest retries_total a client is constructed with.
MaxRetriesTotal == 2

\* ------------------------------------------------------- Python values

\* Python's None (the absent sentinel of access_token).
None == "<None>"

\* The empty dict {}.
EmptyDict == [k \in {} |-> None]

\* str(x) as an f-string renders it: None prints as the text "None".
Format(x) == IF x = None THEN "None" ELSE x

\* dict.get(key): the value, None when the key is absent.
DictGet(d, key) == IF key \in DOMAIN d THEN d[key] ELSE None

\* dict.pop(key, default): the value popped (the default when absent) ...
DictPopValue(d, key, default) == IF key \in DOMAIN d THEN d[key] ELSE default

\* ... and the dict that is left behind.
DictPopRest(d, key) == [k \in DOMAIN d \ {key} |-> d[k]]

\* setattr(obj, name, value) on an object modelled by its attribute dict.
SetAttr(obj, name, value) ==
    [k \in DOMAIN obj \cup {name} |-> IF k = name THEN value ELSE obj[k]]

\* ---------------------------------------------------------- exceptions

\* An exception object: its class and its description.
Exc(cls, text) == [cls |-> cls, text |-> text]

NoExc == Exc("", "")

\* The classes an exception class derives from (itself included).
\* requests.exceptions.JSONDecodeError derives from both RequestException
\* (through InvalidJSONError) and ValueError (through json.JSONDecodeError).
Bases(cls) ==
    CASE cls = "ConnectionError" -> {"ConnectionError", "RequestException", "OSError", "Exception"}
      [] cls = "ReadTimeout"     -> {"ReadTimeout", "Timeout", "RequestException", "OSError", "Exception"}
      [] cls = "HTTPError"       -> {"HTTPError", "RequestException", "OSError", "Exception"}
      [] cls = "JSONDecodeError" -> {"JSONDecodeError", "InvalidJSONError", "RequestException",
                                     "ValueError", "OSError", "Exception"}
      [] cls = "OSError"         -> {"OSError", "Exception"}
      [] cls = "TypeError"       -> {"TypeError", "Exception"}
      [] cls = "AttributeError"  -> {"AttributeError", "Exception"}
      [] OTHER                   -> {}

\* `except handled as error` catches e.
IsInstance(e, handled) == handled \in Bases(e.cls)

\* str(error)
StrOf(e) == e.text

\* The exception object itself, stored where a string is expected.
ObjOf(e) == "<" \o e.cls \o ": " \o e.text \o ">"

\* The outcome of running a function body: a returned value or a raised exception.
Returned(v) == [raised |-> FALSE, exc |-> NoExc, value |-> v]
Raised(e) == [raised |-> TRUE, exc |-> e, value |-> EmptyDict]

\* ------------------------------------------------- the remote API's answers

Tokens == {"tok" \o ToString(i) : i \in 1..NumTokens}

\* A response body as received: a JSON object, a JSON array, another JSON
\* value (string, number, null), or text that is not JSON.
ObjectBody(d) == [kind |-> "object", obj |-> d]
ArrayBody == [kind |-> "array", obj |-> EmptyDict]
ScalarBody == [kind |-> "scalar", obj |-> EmptyDict]
InvalidBody == [kind |-> "invalid", obj |-> EmptyDict]

ResourceObjects ==
    { EmptyDict,
      [success |-> TRUE, message |-> "ok"],
      [success |-> FALSE, message |-> "denied", uuid |-> "abc-123"] }

TokenObjects ==
    { [access_token |-> t] : t \in Tokens \cup {None} }
      \cup { [success |-> FALSE, message |-> "denied"] }

ResourceBodies == {ObjectBody(d) : d \in ResourceObjects} \cup {ArrayBody, ScalarBody, InvalidBody}
TokenBodies == {ObjectBody(d) : d \in TokenObjects} \cup {ArrayBody, InvalidBody}

\* The statuses the API answers with: 452 is its expiry signal, 401 and 500 stand
\* for the 4xx and 5xx ones, 304 for those below 400 that are not 2xx.
ResourceStatuses == {200, 401, 452, 500}
TokenStatuses == {200, 304, 401, 452}

HttpResponse(status, body) == [kind |-> "response", status |-> status, body |-> body, error |-> NoExc]
TransportFailure(e) == [kind |-> "failure", status |-> 0, body |-> InvalidBody, error |-> e]
NoResponse == [kind |-> "none", status |-> 0, body |-> InvalidBody, error |-> NoExc]

TransportFailures ==
    { TransportFailure(Exc("ConnectionError", "connection refused")) }

ResourceAnswers == {HttpResponse(s, b) : s \in ResourceStatuses, b \in ResourceBodies} \cup TransportFailures
TokenAnswers == {HttpResponse(s, b) : s \in TokenStatuses, b \in TokenBodies} \cup TransportFailures

\* Response.raise_for_status(): HTTPError for a 4xx or 5xx status, nothing otherwise.
RaiseForStatus(resp) ==
    IF 400 <= resp.status /\ resp.status < 600
    THEN Raised(Exc("HTTPError", ToString(resp.status) \o " Error"))
    ELSE Returned(None)

\* Response.json(): the decoded body, JSONDecodeError when it is not JSON.
Json(resp) ==
    IF resp.body.kind = "invalid"
    THEN Raised(Exc("JSONDecodeError", "Expecting value"))
    ELSE Returned(resp.body)

\* -------------------------------------------------------------- the client

api_key == "AK"
secret_key == "SK"
master_key == "MK"

HELLO == "hello"
REQUEST_TOKEN == "request_token"
REFRESH_TOKEN == "refresh_token"
GET_SECRETS == "get_secrets"
GET_SECRET == "get_secret"
ADD_SECRET == "add_secret"
ACCEPT_SHARED_SECRET == "accept_shared_secret"
UPDATE_SECRET == "update_secret"
DUPLICATE_SECRET == "duplicate_secret"
SHARE_SECRET == "share_secret"
DELETE_SECRET == "delete_secret"
GET_CONTAINERS == "get_containers"
GET_CONTAINER == "get_container"
ADD_CONTAINER == "add_container"
UPDATE_CONTAINER == "update_container"
DELETE_CONTAINER == "delete_container"
GET_GROUPS == "get_groups"
ADD_GROUP == "add_group"

ENDPOINTS_URLS ==
    [ hello |-> "/api/hello/",
      request_token |-> "/api/auth/request-token/",
      refresh_token |-> "/api/auth/refresh-token/",
      get_secrets |-> "/api/get-secrets/",
      get_secret |-> "/api/get-secret/",
      add_secret |-> "/api/add-secret/",
      accept_shared_secret |-> "/api/accept-shared-secret/",
      update_secret |-> "/api/update-secret/",
      duplicate_secret |-> "/api/duplicate-secret/",
      share_secret |-> "/api/share-secret/",
      delete_secret |-> "/api/delete-secret/",
      get_containers |-> "/api/get-containers/",
      get_container |-> "/api/get-container/",
      add_container |-> "/api/add-container/",
      update_container |-> "/api/update-container/",
      delete_container |-> "/api/delete-container/",
      get_groups |-> "/api/get-groups/",
      add_group |-> "/api/add-group/" ]

\* The status the API reserves for an expired token.
EXPIRED == 452


\* A host name is held as the sequence of its characters, so that
\* str.endswith can be computed on it; Str gives the text back.
RECURSIVE Str(_)
Str(chars) == IF chars = <<>> THEN "" ELSE Head(chars) \o Str(Tail(chars))

\* str.endswith(suffix)
EndsWith(chars, suffix) ==
    /\ Len(chars) >= Len(suffix)
    /\ SubSeq(chars, Len(chars) - Len(suffix) + 1, Len(chars)) = suffix

\* "passfortress.com", the suffix _build_base_url tests for.
ProductionSuffix ==
    <<"p", "a", "s", "s", "f", "o", "r", "t", "r", "e", "s", "s", ".", "c", "o", "m">>

\* host="app.passfortress.com", the default of __init__.
DefaultHost == <<"a", "p", "p", ".">> \o ProductionSuffix

\* _build_base_url had it chosen the scheme by the production host alone.
BuildBaseUrlExactHost(h) ==
    (IF h = DefaultHost THEN "https" ELSE "http") \o "://" \o Str(h)

\* _build_base_url: https for a host that ends with the suffix, http otherwise.
_build_base_url(h) ==
    LET protocol == IF EndsWith(h, ProductionSuffix) THEN "https" ELSE "http"
    IN  protocol \o "://" \o Str(h)

VARIABLES
    host,           \* self.host
    base_url        \* self.base_url, None until __init__ sets it

_endpoint_url(endpoint_name) == base_url \o ENDPOINTS_URLS[endpoint_name]

\* One POST as handed to the transport session.
Post(url, headers, json) == [url |-> url, headers |-> headers, json |-> json]
NoPost == Post("", EmptyDict, EmptyDict)

\* The JSON body and URL of the initial token request.
RequestTokenPost ==
    Post(_endpoint_url(REQUEST_TOKEN), EmptyDict,
         [api_key |-> api_key, secret_key |-> secret_key])

\* The statements of _auth_request_token's try block, given the transport's answer.
RequestTokenTry(resp) ==
    IF resp.kind = "failure" THEN Raised(resp.error)
    ELSE IF RaiseForStatus(resp).raised THEN Raised(RaiseForStatus(resp).exc)
    ELSE IF Json(resp).raised THEN Raised(Json(resp).exc)
    ELSE IF Json(resp).value.kind # "object"
         THEN Raised(Exc("AttributeError", "object has no attribute 'get'"))
    ELSE Returned(DictGet(Json(resp).value.obj, "access_token"))

\* _auth_request_token had it caught requests.RequestException only.
AuthRequestTokenNarrowExcept(resp) ==
    LET try == RequestTokenTry(resp)
    IN  IF try.raised /\ IsInstance(try.exc, "RequestException") THEN Returned(None) ELSE try

\* _auth_request_token: the token of the answer, None on any Exception.
_auth_request_token(resp) ==
    LET try == RequestTokenTry(resp)
    IN  IF try.raised /\ IsInstance(try.exc, "Exception") THEN Returned(None) ELSE try

\* _auth_refresh_token had it built its body without reading the stored token.
RefreshTokenPostNoToken(token) ==
    Post(_endpoint_url(REFRESH_TOKEN), EmptyDict,
         [api_key |-> api_key, secret_key |-> secret_key, access_token |-> None])

\* The JSON body and URL of a refresh request sent while `token` is stored.
RefreshTokenPost(token) ==
    Post(_endpoint_url(REFRESH_TOKEN), EmptyDict,
         [api_key |-> api_key, secret_key |-> secret_key, access_token |-> token])

\* _auth_refresh_token had its try block not called response.raise_for_status().
RefreshTokenTryAnyStatus(resp) ==
    IF resp.kind = "failure" THEN Raised(resp.error)
    ELSE IF Json(resp).raised THEN Raised(Json(resp).exc)
    ELSE IF Json(resp).value.kind # "object"
         THEN Raised(Exc("AttributeError", "object has no attribute 'get'"))
    ELSE Returned(DictGet(Json(resp).value.obj, "access_token"))

\* The statements of _auth_refresh_token's try block up to the assignment.
RefreshTokenTry(resp) ==
    IF resp.kind = "failure" THEN Raised(resp.error)
    ELSE IF RaiseForStatus(resp).raised THEN Raised(RaiseForStatus(resp).exc)
    ELSE IF Json(resp).raised THEN Raised(Json(resp).exc)
    ELSE IF Json(resp).value.kind # "object"
         THEN Raised(Exc("AttributeError", "object has no attribute 'get'"))
    ELSE Returned(DictGet(Json(resp).value.obj, "access_token"))

\* _auth_refresh_token had its except block cleared the stored token.
AuthRefreshTokenClears(resp, token) ==
    LET try == RefreshTokenTry(resp)
    IN  IF ~try.raised
        THEN [raised |-> FALSE, exc |-> NoExc, value |-> try.value, stored |-> try.value]
        ELSE [raised |-> FALSE, exc |-> NoExc, value |-> None, stored |-> None]

\* _auth_refresh_token had it returned the new token without storing it.
AuthRefreshTokenKeeps(resp, token) ==
    LET try == RefreshTokenTry(resp)
    IN  IF ~try.raised
        THEN [raised |-> FALSE, exc |-> NoExc, value |-> try.value, stored |-> token]
        ELSE [raised |-> FALSE, exc |-> NoExc, value |-> None, stored |-> token]

\* _auth_refresh_token: what it leaves in self.access_token (stored) and whether
\* it raises.  The assignment happens only when the try block got to it.
_auth_refresh_token(resp, token) ==
    LET try == RefreshTokenTry(resp)
    IN  IF ~try.raised
        THEN [raised |-> FALSE, exc |-> NoExc, value |-> try.value, stored |-> try.value]
        ELSE IF IsInstance(try.exc, "Exception")
        THEN [raised |-> FALSE, exc |-> NoExc, value |-> None, stored |-> token]
        ELSE [raised |-> TRUE, exc |-> try.exc, value |-> None, stored |-> token]

_build_authorization_bearer(token) == [Authorization |-> "Bearer " \o Format(token)]

\* ClientResponse(status_code): an object with that one attribute set.
ClientResponse(status_code) == [k \in {"status_code"} |-> status_code]

\* The POST that _perform_request issues while `token` is stored.
PerformRequestPost(endpoint_name, payload, token) ==
    Post(_endpoint_url(endpoint_name), _build_authorization_bearer(token), payload)

\* The except block had it left data unset, as the inner one does.
PerformRequestExceptNoData(error) ==
    IF IsInstance(error, "RequestException")
    THEN Returned(SetAttr(SetAttr(ClientResponse(0), "success", FALSE), "message", StrOf(error)))
    ELSE Raised(error)

\* `except requests.RequestException as error` of _perform_request.
PerformRequestExcept(error) ==
    IF IsInstance(error, "RequestException")
    THEN Returned(SetAttr(SetAttr(SetAttr(ClientResponse(0),
                  "success", FALSE), "message", StrOf(error)), "data", EmptyDict))
    ELSE Raised(error)

\* The inner try block had it read success and message with get, not pop.
PerformRequestParseKeepsKeys(client_response, api_response) ==
    LET decoded == Json(api_response)
    IN  IF decoded.raised THEN Raised(decoded.exc)
        ELSE IF decoded.value.kind # "object"
             THEN Raised(Exc("AttributeError", "object has no attribute 'get'"))
        ELSE LET response_dict == decoded.value.obj
             IN  Returned(SetAttr(SetAttr(SetAttr(client_response,
                          "success", DictPopValue(response_dict, "success", FALSE)),
                          "message", DictPopValue(response_dict, "message", "")),
                          "data", response_dict))

\* The inner try block of _perform_request: decode the body and split it.
PerformRequestParse(client_response, api_response) ==
    LET decoded == Json(api_response)
    IN  IF decoded.raised THEN Raised(decoded.exc)
        ELSE IF decoded.value.kind = "array"
             THEN Raised(Exc("TypeError", "pop expected at most 1 argument, got 2"))
        ELSE IF decoded.value.kind # "object"
             THEN Raised(Exc("AttributeError", "object has no attribute 'pop'"))
        ELSE LET response_dict == decoded.value.obj
                 success == DictPopValue(response_dict, "success", FALSE)
                 message == DictPopValue(response_dict, "message", "")
                 rest == DictPopRest(DictPopRest(response_dict, "success"), "message")
             IN  Returned(SetAttr(SetAttr(SetAttr(client_response,
                          "success", success), "message", message), "data", rest))

\* `except ValueError as error` of the inner try block.
PerformRequestParseExcept(client_response, error) ==
    IF IsInstance(error, "ValueError")
    THEN Returned(SetAttr(SetAttr(client_response, "success", FALSE), "message", ObjOf(error)))
    ELSE Raised(error)

\* The undecorated _perform_request, given the transport's answer to its POST.
_perform_request(api_response) ==
    IF api_response.kind = "failure"
    THEN PerformRequestExcept(api_response.error)
    ELSE LET client_response == ClientResponse(api_response.status)
             parsed == PerformRequestParse(client_response, api_response)
             inner == IF parsed.raised
                      THEN PerformRequestParseExcept(client_response, parsed.exc)
                      ELSE parsed
         IN  IF inner.raised THEN PerformRequestExcept(inner.exc) ELSE inner

\* wrapper had it refreshed on 401 Unauthorized as well.
NeedsRefreshOnUnauthorized(response) == response["status_code"] \in {401, EXPIRED}

\* refresh_token_on_expiry: the test on the first response.
NeedsRefresh(response) == response["status_code"] = EXPIRED


\* ---------------------------------------------------- the transport session

DEFAULT_RETRIES_TOTAL == 2
DEFAULT_RETRIES_CONNECT == 2
DEFAULT_RETRIES_READ == 2
DEFAULT_STATUS_FORCELIST == {429, 500, 502, 503, 504}
DEFAULT_ALLOWED_METHODS == {"GET", "POST"}

\* urllib3's Retry(total, connect, read, status_forcelist, allowed_methods,
\* raise_on_status=False): the budgets left and the attempts retried so far.
Retry(total, connect, read) ==
    [total |-> total, connect |-> connect, read |-> read, history |-> <<>>]

\* _create_session: a session whose adapters retry by that policy; no
\* connection is pooled yet.
_create_session(retries_total, retries_connect, retries_read) ==
    [max_retries |-> Retry(retries_total, retries_connect, retries_read),
     pooled |-> FALSE]

\* One attempt of a POST as the adapter sees it: a response (with or without a
\* Retry-After header), or a failure to connect or to read.
ResponseAttempt(resp, retry_after) ==
    [kind |-> "response", resp |-> resp, retry_after |-> retry_after]
ConnectError == [kind |-> "connect", resp |-> NoResponse, retry_after |-> FALSE]
ReadError == [kind |-> "read", resp |-> NoResponse, retry_after |-> FALSE]

\* The statuses Retry honours a Retry-After header on (its default, which
\* _create_session leaves in force).
RETRY_AFTER_STATUS_CODES == {413, 429, 503}

\* Retry.is_retry(method, status_code, has_retry_after)
IsRetry(retry, method, status_code, has_retry_after) ==
    /\ method \in DEFAULT_ALLOWED_METHODS
    /\ \/ status_code \in DEFAULT_STATUS_FORCELIST
       \/ /\ retry.total # 0
          /\ has_retry_after
          /\ status_code \in RETRY_AFTER_STATUS_CODES

\* The entry Retry.increment adds to the history: the error of a failed
\* attempt, or the status of a response that is retried.
RequestHistory(attempt) ==
    IF attempt.kind = "response"
    THEN [error |-> None, status |-> attempt.resp.status]
    ELSE [error |-> attempt.kind, status |-> None]

\* Retry.increment: the budgets after one more failed attempt.
Increment(retry, attempt) ==
    [total |-> retry.total - 1,
     connect |-> IF attempt.kind = "connect" THEN retry.connect - 1 ELSE retry.connect,
     read |-> IF attempt.kind = "read" THEN retry.read - 1 ELSE retry.read,
     history |-> Append(retry.history, RequestHistory(attempt))]

\* Retry.is_exhausted()
IsExhausted(retry) == retry.total < 0 \/ retry.connect < 0 \/ retry.read < 0

\* Whether the adapter counts the attempt against the retry budget.
CountsAsFailure(retry, attempt) ==
    \/ attempt.kind \in {"connect", "read"}
    \/ IsRetry(retry, "POST", attempt.resp.status, attempt.retry_after)

\* Session.post, one attempt on: whether the adapter tries again (and with
\* which budgets) or hands an answer to the caller.  With raise_on_status=False
\* an exhausted budget hands back the last response; a failure that exhausts
\* it is raised as requests' ConnectionError.
SessionPost(retry, attempt) ==
    IF ~CountsAsFailure(retry, attempt)
    THEN [again |-> FALSE, retry |-> retry, answer |-> attempt.resp]
    ELSE IF ~IsExhausted(Increment(retry, attempt))
    THEN [again |-> TRUE, retry |-> Increment(retry, attempt), answer |-> NoResponse]
    ELSE IF attempt.kind = "response"
    THEN [again |-> FALSE, retry |-> retry, answer |-> attempt.resp]
    ELSE [again |-> FALSE, retry |-> retry,
          answer |-> TransportFailure(Exc("ConnectionError", "Max retries exceeded"))]

\* What self._session.close() can raise: nothing, or an error of the socket.
SessionCloseRaises == { NoExc, Exc("OSError", "close failed") }

\* self._session.close(): it returns None, or raises.
SessionCloseOutcome(exc) == IF exc = NoExc THEN Returned(None) ELSE Raised(exc)

\* close had it caught requests.RequestException only.
CloseNarrowExcept(outcome) ==
    IF outcome.raised /\ IsInstance(outcome.exc, "RequestException") THEN Returned(None) ELSE outcome

\* close: `try: self._session.close()  except Exception: pass`.
close(outcome) ==
    IF outcome.raised /\ IsInstance(outcome.exc, "Exception") THEN Returned(None) ELSE outcome

\* ------------------------------------------------ the public operations
\* Each public method builds a payload and hands it, with its endpoint name,
\* to self._perform_request.

Request(endpoint_name, payload) == [endpoint_name |-> endpoint_name, payload |-> payload]

\* hello had it put the secret key in its payload as the token requests do.
HelloWithSecretKey ==
    Request(HELLO, [api_key |-> api_key, master_key |-> master_key, greeting |-> "hello",
                    secret_key |-> secret_key])

hello ==
    Request(HELLO, [api_key |-> api_key, master_key |-> master_key, greeting |-> "hello"])

get_secret(secret_uuid) ==
    Request(GET_SECRET, [api_key |-> api_key, master_key |-> master_key,
                         secret |-> [uuid |-> secret_uuid]])

add_secret(secret_data) ==
    Request(ADD_SECRET, [api_key |-> api_key, master_key |-> master_key,
                         secret |-> secret_data])

accept_shared_secret(secret_data, tmp_master_key) ==
    Request(ACCEPT_SHARED_SECRET, [api_key |-> api_key, tmp_master_key |-> tmp_master_key,
                                   master_key |-> master_key, secret |-> secret_data])

get_containers(container_data) ==
    Request(GET_CONTAINERS, [api_key |-> api_key, master_key |-> master_key,
                             container |-> container_data])

get_container(container_uuid) ==
    Request(GET_CONTAINER, [api_key |-> api_key, master_key |-> master_key,
                            container |-> [uuid |-> container_uuid]])

add_container(container_data) ==
    Request(ADD_CONTAINER, [api_key |-> api_key, master_key |-> master_key,
                            container |-> container_data])

update_container(container_data) ==
    Request(UPDATE_CONTAINER, [api_key |-> api_key, master_key |-> master_key,
                               container |-> container_data])

delete_container(container_uuid) ==
    Request(DELETE_CONTAINER, [api_key |-> api_key, master_key |-> master_key,
                               container |-> [uuid |-> container_uuid]])

\* get_groups had it spread the filter dict into the payload.
GetGroupsSpread(group_data) ==
    Request(GET_GROUPS,
            [k \in {"api_key", "master_key"} \cup DOMAIN group_data |->
                IF k = "api_key" THEN api_key
                ELSE IF k = "master_key" THEN master_key
                ELSE group_data[k]])

get_groups(group_data) ==
    Request(GET_GROUPS, [api_key |-> api_key, master_key |-> master_key,
                         group |-> group_data])

add_group(group_data) ==
    Request(ADD_GROUP, [api_key |-> api_key, master_key |-> master_key,
                        group |-> group_data])

\* delete_secret had it been pasted from get_secret with the endpoint name kept.
DeleteSecretToGetSecret(secret_uuid) ==
    Request(GET_SECRET, [api_key |-> api_key, master_key |-> master_key,
                         secret |-> [uuid |-> secret_uuid]])

delete_secret(secret_uuid) ==
    Request(DELETE_SECRET, [api_key |-> api_key, master_key |-> master_key,
                            secret |-> [uuid |-> secret_uuid]])

update_secret(secret_data) ==
    Request(UPDATE_SECRET, [api_key |-> api_key, master_key |-> master_key,
                            secret |-> secret_data])

get_secrets(secret_data) ==
    Request(GET_SECRETS, [api_key |-> api_key, master_key |-> master_key,
                          secret |-> secret_data])

duplicate_secret(secret_uuid) ==
    Request(DUPLICATE_SECRET, [api_key |-> api_key, master_key |-> master_key,
                               secret |-> [uuid |-> secret_uuid]])

share_secret(secret_uuid, emails_list) ==
    Request(SHARE_SECRET, [api_key |-> api_key, master_key |-> master_key,
                           secret |-> [uuid |-> secret_uuid], emails |-> emails_list])

\* The inputs callers pass.
Uuids == {"abc-123"}
Dicts == { [uuid |-> "abc-123"], [name |-> "db", api_key |-> "other"] }
TmpKeys == {"TMK"}
EmailLists == { <<"a@example.test">> }

\* The public resource methods, by name.
PublicMethods ==
    { "hello", "get_secret", "add_secret", "accept_shared_secret", "get_containers",
      "get_container", "add_container", "update_container", "delete_container",
      "get_groups", "add_group", "delete_secret", "update_secret", "get_secrets",
      "duplicate_secret", "share_secret" }

\* The positional arguments a caller can pass to a method.
ArgumentsOf(method) ==
    CASE method = "hello" -> { <<>> }
      [] method \in {"get_secret", "get_container", "delete_container",
                     "delete_secret", "duplicate_secret"} -> { <<u>> : u \in Uuids }
      [] method = "accept_shared_secret" -> { <<d, k>> : d \in Dicts, k \in TmpKeys }
      [] method = "share_secret" -> { <<u, e>> : u \in Uuids, e \in EmailLists }
      [] OTHER -> { <<d>> : d \in Dicts }

\* client.<method>(*args): the request the method of that name makes.
Call(method, args) ==
    CASE method = "hello" -> hello
      [] method = "get_secret" -> get_secret(args[1])
      [] method = "add_secret" -> add_secret(args[1])
      [] method = "accept_shared_secret" -> accept_shared_secret(args[1], args[2])
      [] method = "get_containers" -> get_containers(args[1])
      [] method = "get_container" -> get_container(args[1])
      [] method = "add_container" -> add_container(args[1])
      [] method = "update_container" -> update_container(args[1])
      [] method = "delete_container" -> delete_container(args[1])
      [] method = "get_groups" -> get_groups(args[1])
      [] method = "add_group" -> add_group(args[1])
      [] method = "delete_secret" -> delete_secret(args[1])
      [] method = "update_secret" -> update_secret(args[1])
      [] method = "get_secrets" -> get_secrets(args[1])
      [] method = "duplicate_secret" -> duplicate_secret(args[1])
      [] method = "share_secret" -> share_secret(args[1], args[2])

\* Every call of a public resource operation, as the request it makes.
PublicCalls == UNION { { Call(m, a) : a \in ArgumentsOf(m) } : m \in PublicMethods }

\* wrapper had it retried with the endpoint only, the payload lost.
WrapperRetryArgsNoPayload(request) == Request(request.endpoint_name, EmptyDict)

\* wrapper: the *args, **kwargs of the second func(self, ...) are those of the first.
WrapperRetryArgs(request) == request

\* _auth_refresh_token had it been decorated with refresh_token_on_expiry as
\* _perform_request is: a refresh answered 452 refreshes again.
WrapperAfterRefreshDecorated(resp) ==
    IF resp.kind = "response" /\ resp.status = EXPIRED THEN "refresh" ELSE "call2"

\* wrapper after self._auth_refresh_token(): its return value is dropped and
\* the answer it got is not looked at; the second func(self, ...) comes next.
WrapperAfterRefresh(resp) == "call2"

\* wrapper had it looped: refresh and retry again while the answer is 452.
WrapperAfterRetryLoops(response) ==
    IF response["status_code"] = EXPIRED THEN "refresh" ELSE "returned"

\* wrapper after the second func(self, ...): `return response`, whatever its status.
WrapperAfterRetry(response) == "returned"


\* ---------------------------------------------------------------- the state

Threads == {"t1", "t2"}

\* The thread that uses the client when it is used from one thread only.
MainThread == "t1"

VARIABLES
    init_pc,        \* where __init__ is: "new", "configured", "waiting", "assigned",
                    \* "raised", "ready"
    init_post,      \* the POST of the initial token request, once sent
    init_response,  \* the transport's answer to it, until __init__ returns
    access_token,   \* self.access_token
    session,        \* self._session: its retry policy, whether it holds pooled connections
    closed,         \* the calls of close() so far: how many, what self._session.close()
                    \* did in the last one, and that call's own outcome
    retry,          \* per thread: the Retry state of the POST it has in flight
    direct,         \* the caller's own calls of _auth_refresh_token, one after another
    frame,          \* per thread: the call of a public operation in progress
    issued          \* the server's side of the refreshes: the token it granted last,
                    \* kept where a grant and its storing are separate steps

vars == <<host, base_url, init_pc, init_post, init_response, access_token,
          session, closed, retry, direct, frame, issued>>

\* No outcome yet.
Pending == [raised |-> FALSE, exc |-> NoExc, value |-> EmptyDict]

\* A thread that is not inside a public operation.
IdleFrame ==
    [ pc        |-> "idle",     \* "call1", "wait1", "refresh", "waitr", "arrived",
                                \* "call2", "wait2",
                                \* "returned", "raised"
      method    |-> "",         \* the public method called ...
      args      |-> <<>>,       \* ... and its arguments
      request   |-> Request("", EmptyDict),   \* endpoint_name and payload of the operation
      posts     |-> 0,          \* resource POSTs issued by this call
      refreshes |-> 0,          \* refresh POSTs issued by this call
      post1     |-> NoPost,     \* the first resource POST ...
      resp1     |-> NoResponse, \* ... and the transport's answer to it
      first     |-> Pending,    \* outcome of the first func(self, ...)
      rpost     |-> NoPost,     \* the refresh POST ...
      rresp     |-> NoResponse, \* ... and its answer
      post2     |-> NoPost,     \* the second resource POST ...
      resp2     |-> NoResponse, \* ... and its answer
      response  |-> Pending ]   \* what the operation returns or raises

\* No direct call of _auth_refresh_token made or in progress.
NoDirect == [pc |-> "idle", post |-> NoPost, log |-> <<>>]

\* PassfortressClient(api_key, secret_key, master_key, host=h,
\* retries_total=total): the start of __init__, with the session its
\* arguments configure.
Construct(h, total) ==
    /\ host = h
    /\ base_url = None
    /\ init_pc = "new"
    /\ init_post = NoPost
    /\ init_response = NoResponse
    /\ access_token = None
    /\ session = _create_session(total, DEFAULT_RETRIES_CONNECT, DEFAULT_RETRIES_READ)
    /\ closed = [calls |-> 0, session_outcome |-> Returned(None), outcome |-> Returned(None)]
    /\ retry = [t \in Threads |-> session.max_retries]
    /\ direct = NoDirect
    /\ frame = [t \in Threads |-> IdleFrame]
    /\ issued = None

\* Construction with every optional argument at its default.
Init == Construct(DefaultHost, DEFAULT_RETRIES_TOTAL)

\* A response leaves its connection in the pool; a failure leaves the pool as it was.
Pooled(s, resp) == [s EXCEPT !.pooled = @ \/ resp.kind = "response"]

\* ------------------------------------------------------------ construction

\* __init__ up to the token request: the attributes are assigned, base_url is
\* built from the host.
InitConfigure ==
    /\ init_pc = "new"
    /\ base_url' = _build_base_url(host)
    /\ init_pc' = "configured"
    /\ UNCHANGED <<issued, host, init_post, init_response, access_token, session, closed,
                   retry, direct, frame>>

\* __init__ calls _auth_request_token, which sends its POST.
InitPost ==
    /\ init_pc = "configured"
    /\ init_post' = RequestTokenPost
    /\ init_pc' = "waiting"
    /\ retry' = [retry EXCEPT ![MainThread] = session.max_retries]
    /\ UNCHANGED <<issued, host, base_url, init_response, access_token, session, closed,
                   direct, frame>>

\* The transport answers; _auth_request_token returns and __init__ assigns.
InitAnswer(resp) ==
    /\ init_pc = "waiting"
    /\ init_response' = resp
    /\ session' = Pooled(session, resp)
    /\ LET got == _auth_request_token(resp)
       IN  IF got.raised
           THEN /\ init_pc' = "raised"
                /\ UNCHANGED access_token
           ELSE /\ init_pc' = "assigned"
                /\ access_token' = got.value
    /\ UNCHANGED <<issued, host, base_url, init_post, closed, retry, direct, frame>>

\* __init__ returns: the client is in the caller's hands.
InitReturn ==
    /\ init_pc = "assigned"
    /\ init_pc' = "ready"
    /\ init_response' = NoResponse
    /\ UNCHANGED <<issued, host, base_url, init_post, access_token, session, closed, retry,
                   direct, frame>>

\* ------------------------------------- a public operation, step by step

\* A caller enters a public method: the payload is built.
Invoke(t, method, args) ==
    /\ init_pc = "ready"
    /\ frame[t].pc = "idle"
    /\ frame' = [frame EXCEPT ![t] = [IdleFrame EXCEPT !.pc = "call1",
                                                       !.method = method,
                                                       !.args = args,
                                                       !.request = Call(method, args)]]
    /\ UNCHANGED <<issued, host, base_url, init_pc, init_post, init_response, access_token,
                   session, closed, retry, direct>>

\* wrapper: the first func(self, ...) sends its POST with the token stored now.
Call1Post(t) ==
    /\ frame[t].pc = "call1"
    /\ frame' = [frame EXCEPT ![t] =
                    [@ EXCEPT !.pc = "wait1",
                              !.posts = @ + 1,
                              !.post1 = PerformRequestPost(frame[t].request.endpoint_name,
                                                           frame[t].request.payload,
                                                           access_token)]]
    /\ retry' = [retry EXCEPT ![t] = session.max_retries]
    /\ UNCHANGED <<issued, host, base_url, init_pc, init_post, init_response, access_token,
                   session, closed, direct>>

\* The transport answers the first POST; func returns or raises; wrapper tests
\* the status.
Call1Answer(t, resp) ==
    /\ frame[t].pc = "wait1"
    /\ LET got == _perform_request(resp)
       IN  frame' = [frame EXCEPT ![t] =
                        [@ EXCEPT !.resp1 = resp,
                                  !.first = got,
                                  !.pc = IF got.raised THEN "raised"
                                         ELSE IF NeedsRefresh(got.value) THEN "refresh"
                                         ELSE "returned",
                                  !.response = IF ~got.raised /\ NeedsRefresh(got.value)
                                               THEN Pending ELSE got]]
    /\ session' = Pooled(session, resp)
    /\ UNCHANGED <<issued, host, base_url, init_pc, init_post, init_response, access_token,
                   closed, retry, direct>>

\* wrapper: self._auth_refresh_token() sends its POST with the token stored now.
RefreshPost(t) ==
    /\ frame[t].pc = "refresh"
    /\ frame' = [frame EXCEPT ![t] =
                    [@ EXCEPT !.pc = "waitr",
                              !.refreshes = @ + 1,
                              !.rpost = RefreshTokenPost(access_token)]]
    /\ retry' = [retry EXCEPT ![t] = session.max_retries]
    /\ UNCHANGED <<issued, host, base_url, init_pc, init_post, init_response, access_token,
                   session, closed, direct>>

\* The transport answers the refresh POST; _auth_refresh_token stores the token
\* or swallows the failure, and returns.
RefreshAnswer(t, resp) ==
    /\ frame[t].pc = "waitr"
    /\ LET got == _auth_refresh_token(resp, access_token)
       IN  /\ access_token' = got.stored
           /\ frame' = [frame EXCEPT ![t] =
                           [@ EXCEPT !.rresp = resp,
                                     !.pc = IF got.raised THEN "raised"
                                            ELSE WrapperAfterRefresh(resp),
                                     !.response = IF got.raised THEN Raised(got.exc)
                                                  ELSE Pending]]
    /\ session' = Pooled(session, resp)
    /\ UNCHANGED <<issued, host, base_url, init_pc, init_post, init_response, closed, retry,
                   direct>>

\* wrapper: the second func(self, ...) sends its POST with the token stored now.
Call2Post(t) ==
    /\ frame[t].pc = "call2"
    /\ frame' = [frame EXCEPT ![t] =
                    [@ EXCEPT !.pc = "wait2",
                              !.posts = @ + 1,
                              !.post2 = PerformRequestPost(
                                            WrapperRetryArgs(frame[t].request).endpoint_name,
                                            WrapperRetryArgs(frame[t].request).payload,
                                            access_token)]]
    /\ retry' = [retry EXCEPT ![t] = session.max_retries]
    /\ UNCHANGED <<issued, host, base_url, init_pc, init_post, init_response, access_token,
                   session, closed, direct>>

\* wrapper had it kept the first response.
WrapperReturnFirst(first, second) == first

\* What wrapper hands back after the second func(self, ...).
WrapperReturn(first, second) == second

\* The transport answers the second POST; wrapper returns func's outcome as it is.
Call2Answer(t, resp) ==
    /\ frame[t].pc = "wait2"
    /\ LET got == _perform_request(resp)
           out == WrapperReturn(frame[t].first, got)
       IN  frame' = [frame EXCEPT ![t] =
                        [@ EXCEPT !.resp2 = resp,
                                  !.pc = IF got.raised THEN "raised"
                                         ELSE WrapperAfterRetry(got.value),
                                  !.response = IF got.raised THEN got ELSE out]]
    /\ session' = Pooled(session, resp)
    /\ UNCHANGED <<issued, host, base_url, init_pc, init_post, init_response, access_token,
                   closed, retry, direct>>

\* The public method hands the outcome to its caller; its locals are gone.
Return(t) ==
    /\ frame[t].pc \in {"returned", "raised"}
    /\ frame' = [frame EXCEPT ![t] = IdleFrame]
    /\ UNCHANGED <<issued, host, base_url, init_pc, init_post, init_response, access_token,
                   session, closed, retry, direct>>

\* ------------------------------------- _auth_refresh_token called directly

\* The caller invokes client._auth_refresh_token() itself, as a test of the
\* refresh does: the POST goes out with the token stored now.
RefreshCallPost ==
    /\ init_pc = "ready"
    /\ direct.pc = "idle"
    /\ frame[MainThread].pc = "idle"
    /\ Len(direct.log) < MaxDirectRefreshes
    /\ direct' = [direct EXCEPT !.pc = "wait", !.post = RefreshTokenPost(access_token)]
    /\ retry' = [retry EXCEPT ![MainThread] = session.max_retries]
    /\ UNCHANGED <<issued, host, base_url, init_pc, init_post, init_response, access_token,
                   session, closed, frame>>

\* The transport answers; _auth_refresh_token stores the token or swallows the
\* failure, and returns.  The exchange is kept in the log.
RefreshCallAnswer(resp) ==
    /\ direct.pc = "wait"
    /\ LET got == _auth_refresh_token(resp, access_token)
       IN  /\ access_token' = got.stored
           /\ direct' = [pc |-> "idle",
                         post |-> NoPost,
                         log |-> Append(direct.log,
                                        [post |-> direct.post, resp |-> resp,
                                         raised |-> got.raised, value |-> got.value])]
    /\ session' = Pooled(session, resp)
    /\ UNCHANGED <<issued, host, base_url, init_pc, init_post, init_response, closed, retry, frame>>

\* ------------------------------------------------------------------ close

\* close(), called by a thread that is not inside an operation: the session's
\* close returns (the pool is emptied) or raises, and close() swallows it.
Close(t, session_outcome) ==
    /\ init_pc = "ready"
    /\ frame[t].pc = "idle"
    /\ closed.calls < MaxCloses
    /\ closed' = [calls |-> closed.calls + 1,
                  session_outcome |-> session_outcome,
                  outcome |-> close(session_outcome)]
    /\ session' = IF session_outcome.raised THEN session
                  ELSE [session EXCEPT !.pooled = FALSE]
    /\ UNCHANGED <<issued, host, base_url, init_pc, init_post, init_response, access_token,
                   retry, direct, frame>>

\* ----------------------------------------------------------- specification

\* The client used from one thread: one operation at a time.
Next ==
    \/ InitConfigure
    \/ InitPost
    \/ \E resp \in TokenAnswers : InitAnswer(resp)
    \/ InitReturn
    \/ \E m \in PublicMethods : \E a \in ArgumentsOf(m) : Invoke(MainThread, m, a)
    \/ Call1Post(MainThread)
    \/ \E resp \in ResourceAnswers : Call1Answer(MainThread, resp)
    \/ RefreshPost(MainThread)
    \/ \E resp \in TokenAnswers : RefreshAnswer(MainThread, resp)
    \/ Call2Post(MainThread)
    \/ \E resp \in ResourceAnswers : Call2Answer(MainThread, resp)
    \/ Return(MainThread)

Spec == Init /\ [][Next]_vars

\* ------------------------------------------- refreshes in direct succession

NextRefresh ==
    \/ InitConfigure
    \/ InitPost
    \/ \E resp \in TokenAnswers : InitAnswer(resp)
    \/ InitReturn
    \/ RefreshCallPost
    \/ \E resp \in TokenAnswers : RefreshCallAnswer(resp)

SpecRefresh == Init /\ [][NextRefresh]_vars

\* ------------------------------------------------------ smaller environments

\* A few answers of each kind, for the specifications whose subject is not
\* the answer.
FewResourceAnswers ==
    { HttpResponse(200, ObjectBody([success |-> TRUE, message |-> "ok"])),
      HttpResponse(EXPIRED, ObjectBody(EmptyDict)),
      HttpResponse(500, ArrayBody) } \cup TransportFailures

FewTokenAnswers ==
    { HttpResponse(200, ObjectBody([access_token |-> t])) : t \in Tokens }
      \cup { HttpResponse(401, ObjectBody([success |-> FALSE, message |-> "denied"])) }
      \cup TransportFailures

FewMethods == {"hello", "get_secret", "add_secret"}

\* ------------------------------------------------ operations that progress

\* The steps of the call in progress: the code runs on, and the transport
\* yields a response or a failure for every POST it was handed.
Progress(t) ==
    \/ Call1Post(t)
    \/ \E resp \in FewResourceAnswers : Call1Answer(t, resp)
    \/ RefreshPost(t)
    \/ \E resp \in FewTokenAnswers : RefreshAnswer(t, resp)
    \/ Call2Post(t)
    \/ \E resp \in FewResourceAnswers : Call2Answer(t, resp)

NextLive ==
    \/ InitConfigure
    \/ InitPost
    \/ \E resp \in FewTokenAnswers : InitAnswer(resp)
    \/ InitReturn
    \/ \E m \in FewMethods : \E a \in ArgumentsOf(m) : Invoke(MainThread, m, a)
    \/ Progress(MainThread)
    \/ Return(MainThread)

\* A call, once made, is not suspended for ever: blocking calls with timeouts.
SpecLive == Init /\ [][NextLive]_vars /\ WF_vars(Progress(MainThread))

\* ------------------------------------- two threads sharing one client

\* Public operations called from two threads on the same client, with nothing
\* between them but the interpreter: every step of either wrapper interleaves
\* with the steps of the other, and self.access_token is read and written by
\* both.
NextConcurrent ==
    \/ InitConfigure
    \/ InitPost
    \/ \E resp \in FewTokenAnswers : InitAnswer(resp)
    \/ InitReturn
    \/ \E t \in Threads : Invoke(t, "hello", <<>>)
    \/ \E t \in Threads : Progress(t)
    \/ \E t \in Threads : Return(t)

SpecConcurrent == Init /\ [][NextConcurrent]_vars

\* --------------------------- two threads, answers in transit to the client

\* The server grants a token with this answer: a 2xx response whose JSON
\* object carries one.
Grants(resp) ==
    /\ resp.kind = "response"
    /\ resp.status \in 200..299
    /\ resp.body.kind = "object"
    /\ "access_token" \in DOMAIN resp.body.obj
    /\ resp.body.obj["access_token"] # None

\* The server answers the refresh POST of t: a granted token is the one it
\* issued last from now on.  The answer is not in the thread's hands yet.
RefreshIssue(t, resp) ==
    /\ frame[t].pc = "waitr"
    /\ frame' = [frame EXCEPT ![t] = [@ EXCEPT !.pc = "arrived", !.rresp = resp]]
    /\ issued' = IF Grants(resp) THEN resp.body.obj["access_token"] ELSE issued
    /\ session' = Pooled(session, resp)
    /\ UNCHANGED <<host, base_url, init_pc, init_post, init_response, access_token,
                   closed, retry, direct>>

\* session.post returns in thread t: _auth_refresh_token runs on from the
\* answer to `self.access_token = ...` or to its except block, and returns.
RefreshStore(t) ==
    /\ frame[t].pc = "arrived"
    /\ LET got == _auth_refresh_token(frame[t].rresp, access_token)
       IN  /\ access_token' = got.stored
           /\ frame' = [frame EXCEPT ![t] =
                           [@ EXCEPT !.pc = IF got.raised THEN "raised"
                                            ELSE WrapperAfterRefresh(frame[t].rresp),
                                     !.response = IF got.raised THEN Raised(got.exc)
                                                  ELSE Pending]]
    /\ UNCHANGED <<issued, host, base_url, init_pc, init_post, init_response, session,
                   closed, retry, direct>>

\* As NextConcurrent, with the time between the server's answer to a refresh
\* and the thread's assignment of the token open to the other thread.
NextRace ==
    \/ InitConfigure
    \/ InitPost
    \/ \E resp \in FewTokenAnswers : InitAnswer(resp)
    \/ InitReturn
    \/ \E t \in Threads : Invoke(t, "hello", <<>>)
    \/ \E t \in Threads : Call1Post(t)
    \/ \E t \in Threads : \E resp \in FewResourceAnswers : Call1Answer(t, resp)
    \/ \E t \in Threads : RefreshPost(t)
    \/ \E t \in Threads : \E resp \in FewTokenAnswers : RefreshIssue(t, resp)
    \/ \E t \in Threads : RefreshStore(t)
    \/ \E t \in Threads : Call2Post(t)
    \/ \E t \in Threads : \E resp \in FewResourceAnswers : Call2Answer(t, resp)
    \/ \E t \in Threads : Return(t)

SpecRace == Init /\ [][NextRace]_vars

\* ------------------------------------------- the transport's own retries

\* Thread t has handed a POST to the session and waits for its answer.
InFlight(t) ==
    \/ frame[t].pc \in {"wait1", "waitr", "wait2"}
    \/ t = MainThread /\ init_pc = "waiting"

\* One attempt of the POST in flight fails in a way the retry policy covers
\* and the budget allows another: the adapter backs off and tries again.
TransportRetry(t, attempt) ==
    /\ InFlight(t)
    /\ SessionPost(retry[t], attempt).again
    /\ retry' = [retry EXCEPT ![t] = SessionPost(retry[t], attempt).retry]
    /\ UNCHANGED <<issued, host, base_url, init_pc, init_post, init_response, access_token,
                   session, closed, direct, frame>>

\* The attempt ends the POST: session.post returns or raises.
Final(t, attempt) == ~SessionPost(retry[t], attempt).again

\* What session.post then hands to its caller.
AnswerOf(t, attempt) == SessionPost(retry[t], attempt).answer

\* What the attempts of a resource POST can be: 200, the expiry status, a
\* status of the force list, and 413, which is not on it; with an object or an
\* array as body; with or without a Retry-After header; or no response.
ResourceAttempts ==
    { ResponseAttempt(HttpResponse(st, b), ra) :
          st \in {200, 413, EXPIRED, 503},
          b \in {ObjectBody(EmptyDict), ArrayBody},
          ra \in BOOLEAN }
      \cup {ConnectError, ReadError}

TokenAttempts ==
    { ResponseAttempt(HttpResponse(200, ObjectBody([access_token |-> "tok1"])), FALSE),
      ResponseAttempt(HttpResponse(500, InvalidBody), FALSE),
      ConnectError }

InitTransport == \E total \in 0..MaxRetriesTotal : Construct(DefaultHost, total)

NextTransport ==
    \/ InitConfigure
    \/ InitPost
    \/ \E a \in TokenAttempts :
           Final(MainThread, a) /\ InitAnswer(AnswerOf(MainThread, a))
    \/ InitReturn
    \/ Invoke(MainThread, "hello", <<>>)
    \/ Call1Post(MainThread)
    \/ \E a \in ResourceAttempts :
           Final(MainThread, a) /\ Call1Answer(MainThread, AnswerOf(MainThread, a))
    \/ RefreshPost(MainThread)
    \/ \E a \in TokenAttempts :
           Final(MainThread, a) /\ RefreshAnswer(MainThread, AnswerOf(MainThread, a))
    \/ Call2Post(MainThread)
    \/ \E a \in ResourceAttempts :
           Final(MainThread, a) /\ Call2Answer(MainThread, AnswerOf(MainThread, a))
    \/ \E a \in ResourceAttempts \cup TokenAttempts : TransportRetry(MainThread, a)
    \/ Return(MainThread)

SpecTransport == InitTransport /\ [][NextTransport]_vars

\* ------------------------------------- the client from construction to close

\* The hosts a client is constructed with: the default, the bare production
\* domain, another domain that ends with the suffix, one that only contains
\* it, one shorter than it, and "example.test".
Hosts ==
    { DefaultHost,
      ProductionSuffix,
      <<"x">> \o ProductionSuffix,
      ProductionSuffix \o <<".", "e", "v", "i", "l">>,
      <<"c", "o", "m">>,
      <<"e", "x", "a", "m", "p", "l", "e", ".", "t", "e", "s", "t">> }

InitClient == \E h \in Hosts : Construct(h, DEFAULT_RETRIES_TOTAL)

\* One thread runs operations; it or another one calls close() at any moment.
NextClient ==
    \/ InitConfigure
    \/ InitPost
    \/ \E resp \in FewTokenAnswers : InitAnswer(resp)
    \/ InitReturn
    \/ \E m \in FewMethods : \E a \in ArgumentsOf(m) : Invoke(MainThread, m, a)
    \/ Call1Post(MainThread)
    \/ \E resp \in FewResourceAnswers : Call1Answer(MainThread, resp)
    \/ RefreshPost(MainThread)
    \/ \E resp \in FewTokenAnswers : RefreshAnswer(MainThread, resp)
    \/ Call2Post(MainThread)
    \/ \E resp \in FewResourceAnswers : Call2Answer(MainThread, resp)
    \/ Return(MainThread)
    \/ \E t \in Threads : \E e \in SessionCloseRaises : Close(t, SessionCloseOutcome(e))

SpecClient == InitClient /\ [][NextClient]_vars


\* ------------------------------------------------- vocabulary of the claims

\* The call of thread t has ended: it returned a result or raised.
Ended(t) == frame[t].pc \in {"returned", "raised"}

\* The answer is a response (not a transport failure) of that status.
Answered(resp, status) == resp.kind = "response" /\ resp.status = status

IsErrorStatus(resp) == resp.kind = "response" /\ resp.status >= 400 /\ resp.status <= 599

IsObject(resp) == resp.kind = "response" /\ resp.body.kind = "object"

\* The token a token-endpoint answer carries, None when it carries none.
TokenIn(resp) ==
    IF IsObject(resp) /\ "access_token" \in DOMAIN resp.body.obj
    THEN resp.body.obj["access_token"] ELSE None

\* A token request or refresh that succeeded: a 2xx answer carrying a token.
TokenGranted(resp) ==
    /\ resp.kind = "response"
    /\ resp.status \in 200..299
    /\ TokenIn(resp) # None

\* A refresh that failed the ways the specification lists: transport failure,
\* a status that is not 2xx, or a body that is malformed or carries no token.
RefreshFailed(resp) == resp.kind \in {"response", "failure"} /\ ~TokenGranted(resp)

\* The Normalized Result the specification prescribes for an answer.
Normalized(resp) ==
    IF resp.kind = "failure"
    THEN [status_code |-> 0, success |-> FALSE, message |-> resp.error.text, data |-> EmptyDict]
    ELSE IF IsObject(resp)
    THEN LET body == resp.body.obj
         IN  [status_code |-> resp.status,
              success |-> IF "success" \in DOMAIN body THEN body["success"] ELSE FALSE,
              message |-> IF "message" \in DOMAIN body THEN body["message"] ELSE "",
              data |-> [k \in DOMAIN body \ {"success", "message"} |-> body[k]]]
    ELSE [status_code |-> resp.status, success |-> FALSE,
          message |-> "Expecting value", data |-> EmptyDict]

\* The answer the outcome of the call of t is built from.
FinalAnswer(t) == IF frame[t].posts = 2 THEN frame[t].resp2 ELSE frame[t].resp1


\* ------------------------------------------------------------------ claims

C2_ExpiredTwiceReturns452 ==
    \A t \in Threads :
        ( /\ Ended(t)
          /\ Answered(frame[t].resp1, EXPIRED)
          /\ Answered(frame[t].resp2, EXPIRED) )
        => /\ frame[t].posts = 2
           /\ frame[t].refreshes = 1
           /\ frame[t].pc = "returned"
           /\ frame[t].response.value["status_code"] = EXPIRED

\* C3, the result: an operation whose first POST failed in the transport has
\* issued one POST and no refresh and returned (0, false, <description>, {}).
C3_FailureResult ==
    \A t \in Threads :
        (Ended(t) /\ frame[t].resp1.kind = "failure")
        => /\ frame[t].posts = 1
           /\ frame[t].refreshes = 0
           /\ frame[t].rpost = NoPost
           /\ frame[t].post2 = NoPost
           /\ frame[t].pc = "returned"
           /\ frame[t].response.value =
                  [status_code |-> 0, success |-> FALSE,
                   message |-> frame[t].resp1.error.text, data |-> EmptyDict]

\* C3, the token: the step that takes the failure returns and leaves
\* access_token as it was.
C3_FailureKeepsToken ==
    \A t \in Threads :
        (frame[t].pc = "wait1" /\ frame'[t].resp1.kind = "failure")
        => /\ access_token' = access_token
           /\ frame'[t].pc = "returned"

C4_NeverRaises == \A t \in Threads : frame[t].pc # "raised"

\* C5 (as stated): when the body of the answer the result is built from is not
\* valid JSON, the result has all four fields: the status received, success
\* false, the parse error's description as message, and data = {}.
C5_MalformedBodyResult ==
    \A t \in Threads :
        ( /\ frame[t].pc = "returned"
          /\ FinalAnswer(t).kind = "response"
          /\ FinalAnswer(t).body.kind = "invalid" )
        => LET result == frame[t].response.value
           IN  /\ DOMAIN result = {"status_code", "success", "message", "data"}
               /\ result["status_code"] = FinalAnswer(t).status
               /\ result["success"] = FALSE
               /\ result["message"] = "Expecting value"
               /\ result["data"] = EmptyDict


C6_FailedRefreshStep ==
    \A t \in Threads :
        (frame[t].pc = "waitr" /\ frame'[t].pc # "waitr" /\ RefreshFailed(frame'[t].rresp))
        => LET answer == frame'[t].rresp
           IN  /\ frame'[t].pc = "call2"
               /\ (answer.kind = "failure" \/ IsErrorStatus(answer) \/ ~IsObject(answer))
                      => access_token' = access_token
               /\ (~IsErrorStatus(answer) /\ IsObject(answer))
                      => access_token' = TokenIn(answer)

\* C6, the bound: no call refreshes twice.
C6_OneRefresh == \A t \in Threads : frame[t].refreshes <= 1

C7_ConstructedAsStated ==
    /\ init_pc # "raised"
    /\ init_pc = "assigned" =>
           IF init_response.kind = "response" /\ init_response.status \in 200..299
           THEN access_token = TokenIn(init_response)
           ELSE access_token = None

\* C7 as stated, afterwards: None becomes a token only by a refresh that succeeds.
C7_AbsentUntilGranted ==
    (init_pc = "ready" /\ access_token = None /\ access_token' # None)
    => \E t \in Threads :
           /\ frame[t].pc = "waitr"
           /\ TokenGranted(frame'[t].rresp)
           /\ access_token' = TokenIn(frame'[t].rresp)

\* C7 (as stated): construction never raises because of the initial token
\* request; when that request fails (transport failure or a status that is
\* not 2xx) access_token is None, and stays None until a later refresh
\* succeeds; when it succeeds access_token is the body's access_token field.
C7_ConstructionAsStated == []C7_ConstructedAsStated /\ [][C7_AbsentUntilGranted]_vars

\* C7 amended, the constructed client.
C7_Constructed ==
    /\ init_pc # "raised"
    /\ init_pc = "assigned" =>
           IF \/ init_response.kind = "failure"
              \/ IsErrorStatus(init_response)
              \/ ~IsObject(init_response)
           THEN access_token = None
           ELSE access_token = TokenIn(init_response)

\* C7 amended, afterwards: None becomes a token only by a refresh's answer.
C7_AbsentUntilRefreshed ==
    (init_pc = "ready" /\ access_token = None /\ access_token' # None)
    => \E t \in Threads :
           /\ frame[t].pc = "waitr"
           /\ ~IsErrorStatus(frame'[t].rresp)
           /\ IsObject(frame'[t].rresp)
           /\ access_token' = TokenIn(frame'[t].rresp)

\* C7 (amended): construction never raises because of the initial token
\* request; access_token is None after a transport failure, a 4xx or 5xx
\* status or a body that is not a JSON object, and otherwise the body's
\* access_token field (None when it has none); once None it stays None until
\* a refresh is answered, with a status that is not 4xx or 5xx, by a JSON
\* object carrying a token.
C7_Construction == []C7_Constructed /\ [][C7_AbsentUntilRefreshed]_vars

\* C7 witness: the initial token request failed in the transport and __init__
\* has assigned None.
C7_Witness ==
    /\ init_pc = "assigned"
    /\ init_response.kind = "failure"
    /\ access_token = None

\* C8 (as stated): when the first resource POST is answered 452 and the refresh
\* fails, the operation issues the resource POST exactly once more and returns
\* the result of that second POST (status_code 0 when it failed in the
\* transport).
C8_RetryAfterFailedRefresh ==
    \A t \in Threads :
        ( /\ Ended(t)
          /\ Answered(frame[t].resp1, EXPIRED)
          /\ RefreshFailed(frame[t].rresp) )
        => /\ frame[t].posts = 2
           /\ frame[t].refreshes = 1
           /\ frame[t].pc = "returned"
           /\ frame[t].response.value["status_code"] = Normalized(frame[t].resp2).status_code

\* C9, each POST: the step that sends a resource POST gives it the one header
\* Authorization: Bearer <the access_token stored at that moment>.
C9_BearerWhenSent ==
    \A t \in Threads :
        (frame'[t].posts = frame[t].posts + 1)
        => LET sent == IF frame'[t].posts = 1 THEN frame'[t].post1 ELSE frame'[t].post2
           IN  /\ DOMAIN sent.headers = {"Authorization"}
               /\ sent.headers["Authorization"] = "Bearer " \o Format(access_token)

\* C9, the retry: after a granted refresh it carries the token that was granted.
C9_RetryCarriesNewToken ==
    \A t \in Threads :
        (frame[t].posts = 2 /\ TokenGranted(frame[t].rresp))
        => frame[t].post2.headers["Authorization"] = "Bearer " \o TokenIn(frame[t].rresp)

\* C9: every resource POST carries Authorization: Bearer <t> with t the
\* access_token stored at the moment the POST is sent, and after a successful
\* refresh the retry carries the newly stored token.
C9_BearerHeader == []C9_RetryCarriesNewToken /\ [][C9_BearerWhenSent]_vars

\* C9 witness: a retry was sent after a granted refresh and its bearer header
\* differs from the original POST's.
C9_Witness ==
    \E t \in Threads :
        /\ frame[t].posts = 2
        /\ TokenGranted(frame[t].rresp)
        /\ frame[t].post1.headers["Authorization"] = "Bearer tok1"
        /\ frame[t].post2.headers["Authorization"] = "Bearer tok2"

\* C10: when the answer the result is built from has a JSON-object body, the
\* operation returns status_code = the answer's status, success = the body's
\* success (false when absent), message = the body's message ("" when
\* absent) and data = the body without the success and message keys.
C10_ObjectBodyResult ==
    \A t \in Threads :
        (Ended(t) /\ IsObject(FinalAnswer(t)))
        => /\ frame[t].pc = "returned"
           /\ frame[t].response.value = Normalized(FinalAnswer(t))

\* C10 witness: a 401 answer {"success": false, "message": "denied", "uuid":
\* "abc-123"} gives (401, false, "denied", {"uuid": "abc-123"}).
C10_Witness ==
    \E t \in Threads :
        /\ frame[t].pc = "returned"
        /\ FinalAnswer(t) = HttpResponse(401, ObjectBody(
               [success |-> FALSE, message |-> "denied", uuid |-> "abc-123"]))
        /\ frame[t].response.value =
               [status_code |-> 401, success |-> FALSE, message |-> "denied",
                data |-> [uuid |-> "abc-123"]]

\* C11, the outcome: no call of close() has raised, whatever the session's
\* close did.
C11_CloseReturns == ~closed.outcome.raised

\* C11, the effect: a call of close() leaves access_token, host, base_url and
\* every operation in progress as they were.
C11_CloseStep ==
    (closed'.calls # closed.calls)
    => /\ closed'.calls = closed.calls + 1
       /\ access_token' = access_token
       /\ <<host, base_url, init_pc, frame>>' = <<host, base_url, init_pc, frame>>

\* C11, any state, any number of times: once the client is constructed, a
\* thread that is not inside an operation can call close(), whatever the other
\* thread is doing and however often close() was called before.
C11_CloseAnyTime ==
    \A t \in Threads :
        (init_pc = "ready" /\ frame[t].pc = "idle" /\ closed.calls < MaxCloses)
        => \A e \in SessionCloseRaises : ENABLED Close(t, SessionCloseOutcome(e))

\* C11: close() can be called any number of times in any state of the client
\* and never raises, even when closing the underlying session fails; it
\* changes neither access_token nor the credentials.
C11_CloseNeverRaises ==
    [](C11_CloseReturns /\ C11_CloseAnyTime) /\ [][C11_CloseStep]_vars

\* C11 witness: close() was called twice while an operation was waiting for
\* its retry with a token stored; the session's close raised in the second
\* call and close() returned.
C11_Witness ==
    /\ closed.calls = 2
    /\ closed.session_outcome.raised
    /\ ~closed.outcome.raised
    /\ frame[MainThread].pc = "wait2"
    /\ access_token \in Tokens

\* C12: when two refreshes performed in direct succession both succeed, the
\* second refresh request carries the token the first one stored (the one its
\* answer returned), and once the second has returned access_token is the
\* token of the second answer.
C12_TwoRefreshes ==
    \A i \in 1..(Len(direct.log) - 1) :
        LET one == direct.log[i]
            two == direct.log[i + 1]
        IN  (TokenGranted(one.resp) /\ TokenGranted(two.resp))
            => /\ two.post.json["access_token"] = TokenIn(one.resp)
               /\ two.value = TokenIn(two.resp)
               /\ (i + 1 = Len(direct.log)) => access_token = TokenIn(two.resp)

\* C12 witness: a refresh granted tok1, the next one carried tok1 and was
\* granted tok2, which is now stored.
C12_Witness ==
    /\ Len(direct.log) = 2
    /\ TokenIn(direct.log[1].resp) = "tok1"
    /\ direct.log[1].post.json["access_token"] # "tok1"
    /\ direct.log[2].post.json["access_token"] = "tok1"
    /\ direct.log[2].resp = HttpResponse(200, ObjectBody([access_token |-> "tok2"]))
    /\ access_token = "tok2"

\* The fixed endpoint path table of the specification, by operation.
EndpointPaths ==
    [ hello |-> "/api/hello/",
      get_secrets |-> "/api/get-secrets/",
      get_secret |-> "/api/get-secret/",
      add_secret |-> "/api/add-secret/",
      accept_shared_secret |-> "/api/accept-shared-secret/",
      update_secret |-> "/api/update-secret/",
      duplicate_secret |-> "/api/duplicate-secret/",
      share_secret |-> "/api/share-secret/",
      delete_secret |-> "/api/delete-secret/",
      get_containers |-> "/api/get-containers/",
      get_container |-> "/api/get-container/",
      add_container |-> "/api/add-container/",
      update_container |-> "/api/update-container/",
      delete_container |-> "/api/delete-container/",
      get_groups |-> "/api/get-groups/",
      add_group |-> "/api/add-group/" ]

\* The resource POSTs the call of t has sent so far.
PostsOf(t) ==
    (IF frame[t].posts >= 1 THEN {frame[t].post1} ELSE {})
        \cup (IF frame[t].posts >= 2 THEN {frame[t].post2} ELSE {})

\* C13: every POST of a public resource operation goes to base_url followed by
\* the path the fixed endpoint table gives for the operation of the method's
\* own name, and the operation name every method uses has a registry entry,
\* the table's, at every moment of the client's life.
C13_EndpointOfMethod ==
    \A t \in Threads :
        frame[t].pc # "idle"
        => /\ frame[t].request.endpoint_name = frame[t].method
           /\ frame[t].request.endpoint_name \in DOMAIN ENDPOINTS_URLS
           /\ ENDPOINTS_URLS[frame[t].request.endpoint_name] = EndpointPaths[frame[t].method]
           /\ \A post \in PostsOf(t) : post.url = base_url \o EndpointPaths[frame[t].method]

\* C13 witness: get_secret("abc-123") has sent its retry, and both POSTs went
\* to /api/get-secret/ of the base URL.
C13_Witness ==
    \E t \in Threads :
        /\ frame[t].method = "get_secret"
        /\ frame[t].args = <<"abc-123">>
        /\ frame[t].posts = 2
        /\ frame[t].post1.url = "https://app.passfortress.com/api/get-secret/"
        /\ frame[t].post2.url = "https://app.passfortress.com/api/get-secret/"

\* The operations that pass a caller's dict through, with the key each puts
\* it under.
ResourceKey ==
    [ add_secret |-> "secret", update_secret |-> "secret", get_secrets |-> "secret",
      get_containers |-> "container", add_container |-> "container",
      update_container |-> "container",
      get_groups |-> "group", add_group |-> "group" ]

\* C14: the JSON body of every resource POST has api_key and master_key equal
\* to the client's credentials, and for the pass-through operations it is
\* exactly {api_key, master_key, <resource key>: <the dict the caller passed>}:
\* three keys, the dict as it was given.
C14_PayloadOfMethod ==
    \A t \in Threads :
        \A post \in PostsOf(t) :
            /\ "api_key" \in DOMAIN post.json /\ post.json["api_key"] = api_key
            /\ "master_key" \in DOMAIN post.json /\ post.json["master_key"] = master_key
            /\ frame[t].method \in DOMAIN ResourceKey
                   => /\ DOMAIN post.json = {"api_key", "master_key", ResourceKey[frame[t].method]}
                      /\ post.json[ResourceKey[frame[t].method]] = frame[t].args[1]

\* C14 witness: add_secret({"name": "db", "api_key": "other"}) has sent its
\* retry; both bodies are {api_key: AK, master_key: MK, secret: <that dict>}.
C14_Witness ==
    \E t \in Threads :
        /\ frame[t].method = "add_secret"
        /\ frame[t].args = << [name |-> "db", api_key |-> "other"] >>
        /\ frame[t].posts = 2
        /\ frame[t].post1.json = [api_key |-> "AK", master_key |-> "MK",
                                  secret |-> [name |-> "db", api_key |-> "other"]]
        /\ frame[t].post2.json = frame[t].post1.json

\* The host ends with the production domain suffix: it is some prefix
\* followed by passfortress.com.
HasProductionSuffix(h) ==
    \E n \in 0..Len(h) : [i \in 1..(Len(h) - n) |-> h[n + i]] = ProductionSuffix

\* C15, the value: once built, base_url is https://<host> for a host that ends
\* with passfortress.com and http://<host> for any other.
C15_BaseUrlOfHost ==
    init_pc # "new"
    => base_url = (IF HasProductionSuffix(host) THEN "https://" ELSE "http://") \o Str(host)

\* C15, once: base_url is assigned by the first step of __init__ and by no
\* later step, and the host it was built from stays the same.
C15_BuiltOnce ==
    /\ host' = host
    /\ init_pc # "new" => base_url' = base_url

\* C15: base_url is https://<host> when the configured host ends with the
\* production domain suffix passfortress.com and http://<host> for every other
\* host; it is computed once at construction and never changes afterwards.
C15_BaseUrl == []C15_BaseUrlOfHost /\ [][C15_BuiltOnce]_vars

\* C15 witness: a client constructed with host example.test has base_url
\* http://example.test, still so after an operation with a refresh and a
\* close.
C15_Witness ==
    /\ host = <<"e", "x", "a", "m", "p", "l", "e", ".", "t", "e", "s", "t">>
    /\ base_url = "http://example.test"
    /\ closed.calls = 1
    /\ frame[MainThread].pc = "returned"
    /\ frame[MainThread].posts = 2
    /\ frame[MainThread].post2.url = "http://example.test/api/hello/"

\* C16, the cause: a call that has issued a refresh had its first resource
\* POST answered 452 before; one whose first POST got any other status, or
\* failed in the transport, has issued none.
C16_RefreshedAfterExpiry ==
    \A t \in Threads :
        /\ (frame[t].refreshes > 0 \/ frame[t].rpost # NoPost)
               => (frame[t].posts >= 1 /\ Answered(frame[t].resp1, EXPIRED))
        /\ (frame[t].resp1.kind = "failure" \/ \E s \in ResourceStatuses \ {EXPIRED} :
                                                   Answered(frame[t].resp1, s))
               => (frame[t].refreshes = 0 /\ frame[t].rpost = NoPost)

\* C16, the order: the step that sends a refresh is taken by a call whose
\* first POST has been answered 452 and that has refreshed not yet.
C16_RefreshSent ==
    \A t \in Threads :
        (frame'[t].refreshes # frame[t].refreshes /\ frame'[t].pc # "idle")
        => /\ Answered(frame[t].resp1, EXPIRED)
           /\ frame[t].posts = 1
           /\ frame'[t].refreshes = 1
           /\ access_token' = access_token

\* C16, the writer: once the client is constructed, a step that changes
\* access_token is the return of such a refresh.
C16_TokenWritten ==
    (init_pc = "ready" /\ access_token' # access_token)
    => \E t \in Threads :
           /\ frame[t].pc = "waitr"
           /\ frame'[t].pc = "call2"
           /\ Answered(frame[t].resp1, EXPIRED)
           /\ frame[t].refreshes = 1

\* C16: a refresh request is issued only after a resource POST of the same
\* call has been answered 452, for no other status (401 and 500 among them) and
\* not for a transport failure; outside construction access_token is written
\* only by such a refresh.
C16_RefreshOnlyOnExpiry ==
    []C16_RefreshedAfterExpiry /\ [][C16_RefreshSent /\ C16_TokenWritten]_vars

\* C16 witness: after a first POST answered 452 the refresh, sent with tok1,
\* was granted tok2, which is now stored.
C16_Witness ==
    \E t \in Threads :
        /\ frame[t].pc = "call2"
        /\ Answered(frame[t].resp1, EXPIRED)
        /\ frame[t].rpost.json["access_token"] = "tok1"
        /\ TokenIn(frame[t].rresp) = "tok2"
        /\ access_token = "tok2"

\* C17: the retry sent after an expiry answer goes to the same URL with the
\* same JSON payload as the first POST, and with the same single header name;
\* nothing but the bearer token in that header can differ.
C17_RetrySameRequest ==
    \A t \in Threads :
        frame[t].posts = 2
        => /\ Answered(frame[t].resp1, EXPIRED)
           /\ frame[t].post2.url = frame[t].post1.url
           /\ frame[t].post2.json = frame[t].post1.json
           /\ frame[t].post2.json = frame[t].request.payload
           /\ DOMAIN frame[t].post2.headers = {"Authorization"}
           /\ DOMAIN frame[t].post1.headers = {"Authorization"}

\* C17 witness: add_secret was retried with the same URL and payload and
\* another bearer token.
C17_Witness ==
    \E t \in Threads :
        /\ frame[t].method = "add_secret"
        /\ frame[t].posts = 2
        /\ frame[t].post2.url = "https://app.passfortress.com/api/add-secret/"
        /\ frame[t].post2.json["secret"] = [uuid |-> "abc-123"]
        /\ frame[t].post1.headers # frame[t].post2.headers

\* C18, the bound: a call issues at most two resource POSTs and one refresh
\* POST, three POSTs in all.
C18_AtMostThreePosts ==
    \A t \in Threads :
        /\ frame[t].posts <= 2
        /\ frame[t].refreshes <= 1
        /\ frame[t].posts + frame[t].refreshes <= 3

\* C18 (as stated): every invoked resource operation eventually returns,
\* whatever the transport answers, after at most three POSTs (two resource
\* POSTs and one refresh), provided every POST is eventually answered.
C18_EventuallyReturns ==
    /\ []C18_AtMostThreePosts
    /\ \A t \in {MainThread} : (frame[t].pc = "call1") ~> (frame[t].pc = "returned")

\* The statuses the transport may retry a POST on, by the specification.
RetryableStatuses == {429, 500, 502, 503, 504}

\* The attempts of the POST of t that were retried.
Retried(t) == retry[t].history

\* C19, the retries: only a failure to connect or to read and a retryable
\* status are retried, never a 452, and at most retries_total times for one
\* POST.
C19_RetriesBounded ==
    \A t \in {MainThread} :
        /\ \A i \in 1..Len(Retried(t)) :
              /\ Retried(t)[i].error = None =>
                    /\ Retried(t)[i].status \in RetryableStatuses
                    /\ Retried(t)[i].status # EXPIRED
              /\ Retried(t)[i].error # None =>
                    Retried(t)[i].error \in {"connect", "read"}
        /\ Len(Retried(t)) <= session.max_retries.total

\* C19, the final response: an operation whose last POST was answered with a
\* retryable status (the budget being exhausted) has returned a result that
\* carries this status, not 0.
C19_FinalResponseReturned ==
    \A t \in {MainThread} :
        ( /\ Ended(t)
          /\ FinalAnswer(t).kind = "response"
          /\ FinalAnswer(t).status \in RetryableStatuses )
        => /\ Len(Retried(t)) = session.max_retries.total
           /\ frame[t].pc = "returned"
           /\ frame[t].response.value["status_code"] = FinalAnswer(t).status

\* C19 (as stated): the transport retries a POST only on connection or read
\* failures and on the statuses 429, 500, 502, 503 and 504, at most
\* retries_total extra times; when the budget is exhausted on a retryable
\* status the caller receives that final response and the operation's result
\* carries its status code, not 0; a 452 answer is never retried by the
\* transport.
C19_TransportRetries == C19_RetriesBounded /\ C19_FinalResponseReturned

\* C20, each operation on its own: at most one refresh and at most two
\* resource POSTs, whatever the other thread does.
C20_PerOperationBounds ==
    \A t \in Threads : frame[t].refreshes <= 1 /\ frame[t].posts <= 2

\* C20, the retry: it carries the token stored at the moment it is sent,
\* whichever thread stored it.
C20_RetryCarriesStored ==
    \A t \in Threads :
        (frame[t].posts = 1 /\ frame'[t].posts = 2)
        => frame'[t].post2.headers["Authorization"] = "Bearer " \o Format(access_token)

\* C20: when two operations run concurrently on one client and both are
\* answered 452 on their first POST, two refresh requests can be issued (the
\* witness), while each operation still issues at most one refresh and at most
\* two resource POSTs and its retry carries whatever token is stored at the
\* moment the retry is sent.
C20_ConcurrentRefreshes == []C20_PerOperationBounds /\ [][C20_RetryCarriesStored]_vars

\* C20 witness: both threads were answered 452, both refresh POSTs were sent
\* while both calls were in progress (two refreshes, not one), both refreshes
\* were granted, and the retry of t1 carries the token granted to t2, which
\* was the one stored when t1 sent its retry.
C20_Witness ==
    /\ \A t \in Threads :
          /\ Answered(frame[t].resp1, EXPIRED)
          /\ frame[t].refreshes = 1
          /\ TokenGranted(frame[t].rresp)
          /\ frame[t].posts = 2
    /\ TokenIn(frame["t1"].rresp) = "tok1"
    /\ TokenIn(frame["t2"].rresp) = "tok2"
    /\ frame["t1"].post2.headers["Authorization"] = "Bearer tok2"

\* The bearer header of the retry is the one of the original POST.
SameBearer(t) ==
    frame[t].post2.headers["Authorization"] = frame[t].post1.headers["Authorization"]

\* The refresh's answer is a status that is not 2xx.
NotSuccessStatus(resp) == resp.kind = "response" /\ resp.status \notin 200..299

\* C22 as stated, the step that takes the refresh's answer.
C22_RefreshStepAsStated ==
    \A t \in Threads :
        (frame[t].pc = "waitr" /\ frame'[t].pc # "waitr")
        => LET answer == frame'[t].rresp
           IN  /\ (answer.kind = "failure" \/ NotSuccessStatus(answer))
                      => access_token' = access_token
               /\ access_token' # access_token
                      => (answer.kind = "response" /\ answer.status \in 200..299
                          /\ IsObject(answer))

\* C22 as stated, the retry after such a refresh.
C22_RetryAsStated ==
    \A t \in Threads :
        (frame[t].posts = 2
         /\ (frame[t].rresp.kind = "failure" \/ NotSuccessStatus(frame[t].rresp)))
        => SameBearer(t)

\* C22 (as stated): a refresh attempt that ends in a transport failure or a
\* status that is not 2xx leaves access_token as it was before the attempt, so
\* the retry carries the same bearer token as the original POST; access_token
\* is overwritten only when the refresh response is 2xx with a JSON-object
\* body.
C22_FailedRefreshFrame == []C22_RetryAsStated /\ [][C22_RefreshStepAsStated]_vars

\* C22 amended, the step that takes the refresh's answer.
C22_RefreshStep ==
    \A t \in Threads :
        (frame[t].pc = "waitr" /\ frame'[t].pc # "waitr")
        => LET answer == frame'[t].rresp
           IN  /\ (answer.kind = "failure" \/ IsErrorStatus(answer))
                      => access_token' = access_token
               /\ access_token' # access_token
                      => (answer.kind = "response" /\ ~IsErrorStatus(answer)
                          /\ IsObject(answer))

\* C22 amended, the retry after such a refresh.
C22_Retry ==
    \A t \in Threads :
        (frame[t].posts = 2
         /\ (frame[t].rresp.kind = "failure" \/ IsErrorStatus(frame[t].rresp)))
        => SameBearer(t)

\* C22 (amended): a refresh attempt that ends in a transport failure or a 4xx
\* or 5xx status leaves access_token as it was before the attempt, so the
\* retry carries the same bearer token as the original POST; access_token is
\* overwritten only when the refresh response has a status that is not 4xx or
\* 5xx and a JSON-object body.
C22_ErrorRefreshFrame == []C22_Retry /\ [][C22_RefreshStep]_vars

\* C22 witness: the refresh was answered 401 with a JSON-object body that
\* carries a token, the retry was sent, and both resource POSTs carry the
\* token stored before, which is still stored.
C22_Witness ==
    \E t \in Threads :
        /\ frame[t].posts = 2
        /\ frame[t].rresp = HttpResponse(401, ObjectBody([access_token |-> "tok2"]))
        /\ frame[t].post1.headers["Authorization"] = "Bearer tok1"
        /\ frame[t].post2.headers["Authorization"] = "Bearer tok1"
        /\ access_token = "tok1"

\* C23, the token request of __init__: it is sent once, and the step that
\* takes its answer, whatever the answer, ends _auth_request_token without
\* another POST of any kind.
C23_TokenRequestOnce ==
    /\ init_post' # init_post => (init_pc = "configured" /\ init_post = NoPost)
    /\ (init_pc = "waiting" /\ init_pc' # "waiting")
           => /\ init_pc' \in {"assigned", "raised"}
              /\ init_post' = init_post
              /\ frame' = frame
              /\ direct' = direct

\* C23, the refresh of a call: the step that takes its answer, whatever the
\* answer, sends nothing and goes on to the retry of the resource POST; a
\* refresh POST is only ever sent by a call that has sent none.
C23_RefreshOnce ==
    \A t \in Threads :
        /\ (frame[t].pc = "waitr" /\ frame'[t].pc # "waitr")
               => /\ frame'[t].pc \in {"call2", "raised"}
                  /\ frame'[t].refreshes = frame[t].refreshes
                  /\ frame'[t].rpost = frame[t].rpost
                  /\ frame'[t].posts = frame[t].posts
                  /\ init_post' = init_post
        /\ (frame'[t].rpost # frame[t].rpost /\ frame'[t].pc # "idle")
               => (frame[t].pc = "refresh" /\ frame[t].refreshes = 0)

\* C23, the count: a call whose refresh was answered has sent one refresh.
C23_OneRefreshPerCall ==
    \A t \in Threads :
        frame[t].rresp.kind # "none" => frame[t].refreshes = 1

TokenPosts ==
    {p \in {init_post, direct.post} \cup {frame[t].rpost : t \in Threads} : p # NoPost}

\* The keys of a resource payload whose values are strings, and those whose
\* values are dicts.
StringKeys == {"api_key", "master_key", "greeting", "tmp_master_key"}
DictKeys == {"secret", "container", "group"}

\* The secret key is nowhere in the JSON body: not as a key, not as a value,
\* at the top or inside the resource dict or the list of emails.
SecretKeyAbsent(json) ==
    /\ "secret_key" \notin DOMAIN json
    /\ \A k \in DOMAIN json \cap StringKeys : json[k] # secret_key
    /\ \A k \in DOMAIN json \cap DictKeys :
          /\ "secret_key" \notin DOMAIN json[k]
          /\ \A f \in DOMAIN json[k] : json[k][f] # secret_key
    /\ "emails" \in DOMAIN json =>
          \A i \in 1..Len(json["emails"]) : json["emails"][i] # secret_key

\* C24: secret_key is sent only in the bodies of the request-token and
\* refresh-token POSTs: no payload a public resource operation builds or sends
\* contains it (the caller's inputs not containing it), and the token POSTs,
\* which do carry it in their body, never carry the Authorization header.
C24_SecretKeyOnlyInTokenPosts ==
    /\ \A t \in Threads :
          /\ frame[t].pc # "idle" => SecretKeyAbsent(frame[t].request.payload)
          /\ \A post \in PostsOf(t) :
                /\ SecretKeyAbsent(post.json)
                /\ DOMAIN post.json \subseteq StringKeys \cup DictKeys \cup {"emails"}
    /\ \A post \in TokenPosts :
          /\ post.json["secret_key"] = secret_key
          /\ "Authorization" \notin DOMAIN post.headers
          /\ post.url \in {_endpoint_url(REQUEST_TOKEN), _endpoint_url(REFRESH_TOKEN)}

\* C24 witness: share_secret has sent its POST, its refresh and its retry: the
\* refresh carries the secret key in its body and no header, the two resource
\* POSTs carry the bearer header and a body of four keys without it.
C24_Witness ==
    \E t \in Threads :
        /\ frame[t].method = "share_secret"
        /\ frame[t].posts = 2
        /\ frame[t].rpost.json["secret_key"] = secret_key
        /\ frame[t].rpost.headers = EmptyDict
        /\ DOMAIN frame[t].post2.json = {"api_key", "master_key", "secret", "emails"}
        /\ "Authorization" \in DOMAIN frame[t].post2.headers

\* C21 (as stated): when two concurrent operations on the same client have
\* each completed a successful refresh and have returned, the access_token
\* stored is the token the server issued last, never the older of the two.
C21_LastIssuedStored ==
    (\A t \in Threads : Ended(t) /\ TokenGranted(frame[t].rresp))
    => access_token = issued

====
